---------------------------- MODULE Spec2Model ----------------------------
(***************************************************************************)
(* Zypher archive packaging engine: Packager.compress_file,                *)
(* Packager.compress_with_retry and Unpacker.unpack as one state machine.  *)
(*                                                                         *)
(* A run packs one source file into the destination path (through the      *)
(* retry policy), the archive on disk may then be altered by somebody      *)
(* else, and an Unpacker restores it into an output directory.             *)
(*                                                                         *)
(* Files.  A file is [exists, data].  The data of a source file or of a    *)
(* restored file is a sequence of blocks, each block standing for one run  *)
(* of CHUNK_SIZE equal bytes, so a file of n blocks has n * CHUNK_SIZE     *)
(* bytes and one read(chunk_size) returns chunk_size / CHUNK_SIZE blocks.  *)
(* The data of an archive is the sequence of the sections written to it.   *)
(*                                                                         *)
(* Failures.  Every step of compress_file that reads or writes file data   *)
(* (the checksum pass, mkstemp, the header writes, the source reads, the   *)
(* compressor writes, the close of the streams, the rename) may raise      *)
(* OSError, and the progress callback may raise.  The source path does not *)
(* change during a run: the checks on the suffix and the size give the     *)
(* same answer on every attempt.  The process may be killed at any step of *)
(* compress_file.  shutil.move is the rename it is for two paths of one    *)
(* directory.                                                              *)
(*                                                                         *)
(* Batches.  A BatchPackager or BatchUnpacker call submits a task per job  *)
(* to a pool of max_workers threads and drains the futures in the order    *)
(* as_completed yields them: those already done when it is called in the   *)
(* order of a set, the others as they complete.  A job is given by what    *)
(* its task meets (a good input, an input refused for good, a missing      *)
(* input, an archive without a size), and each attempt on a good input may *)
(* fail on I/O.  The progress callback may raise at any call.              *)
(*                                                                         *)
(* Spec is packing through the retry policy.  SpecUnpack is one packing    *)
(* attempt followed by unpacking, the archive altered in between or not.   *)
(* SpecBatch is one batch call on a shared Packager or Unpacker, the       *)
(* dictionary file replaced meanwhile or not.  SpecDict is several packs   *)
(* of one file on one Packager, with train_dictionary run by another       *)
(* thread at any moment.  SpecStream is one fault-free compress_file on a   *)
(* file given by its size in bytes alone, at the sizes where the size      *)
(* limits and the chunk sizes change.                                      *)
(*                                                                         *)
(* Archives of the other packagers.  VisualPackager and LossyPackager      *)
(* write the same header with their own tag and manifest; an altered       *)
(* archive may be the visual archive of the same payload, which unpack     *)
(* sends through _recompress_pdf_streams, any step of which may fail.      *)
(***************************************************************************)
EXTENDS Integers, Sequences, FiniteSets, TLC

(***************************************************************************)
(* Bounds of the model.                                                    *)
(***************************************************************************)
\* longest source file, in blocks
MaxBlocks == 2
\* a block holds one of the values 0 .. MaxBlockVal
MaxBlockVal == 1
\* largest max_retries a caller passes
MaxRetries == 4
\* largest base retry_delay a caller passes
MaxDelay == 2
\* most jobs in a batch
MaxJobs == 2
\* largest max_workers of a batch
MaxWorkers == 2
\* largest max_retries of a batch
MaxBatchRetries == 2
\* most packs made on one Packager
MaxPacks == 2
\* most dictionaries trained on one Packager
MaxTrainings == 1

(***************************************************************************)
(* Program constants.                                                      *)
(***************************************************************************)
MAGIC == "ZPKG"
VERSION == 1
CHUNK_SIZE == 65536
DEFAULT_MAX_FILE_SIZE_MB == 500
\* the configured number of attempts: DEFAULTS["compression"]["max_retries"]
DEFAULT_MAX_RETRIES == 3
SUPPORTED_FORMATS ==
    {".pdf", ".jpg", ".jpeg", ".png", ".tiff", ".docx", ".xlsx", ".pptx", ".txt", ".csv"}
\* UNPACK_MAGICS with a tag of no packager let through
UNPACK_MAGICS_AND_JUNK == {"ZPKG", "ZPKV", "JUNK"}

\* unpacker.py line 50: the tags unpack lets through
UNPACK_MAGICS == {"ZPKG", "ZPKV"}
\* the MAGIC of Packager, VisualPackager and LossyPackager
PACKAGER_MAGICS == {"ZPKG", "ZPKV", "ZPKL"}

\* self.MAX_FILE_SIZE = max_file_size_mb * 1024 * 1024
MAX_FILE_SIZE == DEFAULT_MAX_FILE_SIZE_MB * 1024 * 1024

\* _get_chunk_size with the chunk size of small files for every file
_get_chunk_size_small(file_size) == CHUNK_SIZE

\* lines 66-72: the chunk size by the size of the source in bytes
_get_chunk_size(file_size) ==
    IF file_size < 10000000 THEN 65536
    ELSE IF file_size < 100000000 THEN 524288
    ELSE 1048576

(***************************************************************************)
(* Files and the file system calls the code makes.                         *)
(***************************************************************************)
Absent == [exists |-> FALSE, data |-> <<>>]
File(d) == [exists |-> TRUE, data |-> d]

BlockVals == 0 .. MaxBlockVal
RECURSIVE SeqsUpTo(_, _)
SeqsUpTo(S, n) ==
    IF n = 0 THEN {<<>>}
    ELSE LET shorter == SeqsUpTo(S, n - 1)
         IN  shorter \cup {Append(s, x) : s \in {t \in shorter : Len(t) = n - 1}, x \in S}

\* A source path: its suffix, whether a file is there, the file's size in bytes
\* (os.path.getsize) and its content.
SmallSources ==
    {[ext |-> ".txt", exists |-> TRUE, size |-> Len(d) * CHUNK_SIZE, data |-> d] :
        d \in SeqsUpTo(BlockVals, MaxBlocks)}
\* A file whose suffix is not in SUPPORTED_FORMATS.
UnsupportedSource == [ext |-> ".exe", exists |-> TRUE, size |-> CHUNK_SIZE, data |-> <<0>>]
\* A file over the size ceiling: compress_file rejects it on its size and never
\* opens it, so its content is left out.
BigSource == [ext |-> ".txt", exists |-> TRUE, size |-> MAX_FILE_SIZE + 1, data |-> <<>>]
\* A path with no file.
MissingSource == [ext |-> ".txt", exists |-> FALSE, size |-> 0, data |-> <<>>]
Sources == SmallSources \cup {UnsupportedSource, BigSource, MissingSource}

\* in_f.read(n) at block position pos
ReadChunk(data, pos, n) ==
    LET k == n \div CHUNK_SIZE
        last == IF pos + k > Len(data) THEN Len(data) ELSE pos + k
    IN  SubSeq(data, pos + 1, last)

(***************************************************************************)
(* hashlib.sha256 over a file read in chunks of CHUNK_SIZE: the digest is  *)
(* modelled as an injective code of the blocks fed to update(), so that    *)
(* different contents never share a digest.                                *)
(***************************************************************************)
RECURSIVE Sha256Update(_, _)
Sha256Update(h, blocks) ==
    IF blocks = <<>> THEN h
    ELSE Sha256Update(h * (MaxBlockVal + 2) + Head(blocks) + 1, Tail(blocks))

RECURSIVE ChecksumLoop(_, _, _)
ChecksumLoop(h, data, pos) ==
    LET chunk == ReadChunk(data, pos, CHUNK_SIZE)
    IN  IF chunk = <<>> THEN h
        ELSE ChecksumLoop(Sha256Update(h, chunk), data, pos + Len(chunk))

\* hexdigest(): a non-empty string, modelled as a one-element sequence
_checksum_file(f) == <<ChecksumLoop(0, f.data, 0)>>

(***************************************************************************)
(* The shared dictionary and the zstd streams.                             *)
(***************************************************************************)
\* _cached_dict: None, or a ZstdCompressionDict over the bytes of the dictionary
\* file.  A ZstdCompressionDict has a length, so one over no bytes is falsy.
NoDict == [loaded |-> FALSE, data |-> <<>>]
EmptyDict == [loaded |-> TRUE, data |-> <<>>]
TrainedDict == [loaded |-> TRUE, data |-> <<1>>]
DictStates == {NoDict, EmptyDict, TrainedDict}

\* is not None taken as the truth value of the cache
IsNotNoneByTruth(d) == d.loaded /\ d.data # <<>>
\* self._cached_dict is not None
IsNotNone(d) == d.loaded
Truthy(d) == d.loaded /\ Len(d.data) > 0

\* the dictionary id zstd records in a frame header (0: none)
DictId(d) == IF Truthy(d) THEN d.data[1] ELSE 0

\* What zstd makes of a chunk: an invertible code that depends on the dictionary.
ZstdEncode(chunk, id) ==
    [i \in 1 .. Len(chunk) |-> 2 * chunk[i] + 1 + id]
ZstdDecode(enc, id) ==
    [i \in 1 .. Len(enc) |-> (enc[i] - 1 - id) \div 2]

\* _build_compressor: the cached dictionary is used when it is truthy
_build_compressor(cached, track_progress) ==
    [dict |-> IF Truthy(cached) THEN cached ELSE NoDict,
     threads |-> IF track_progress THEN 0 ELSE -1]

\* _build_decompressor with the dictionary never passed on
_build_decompressor_plain(has_dict, cached) == [dict |-> NoDict]

\* _build_decompressor: if has_dict and self._cached_dict
_build_decompressor(has_dict, cached) ==
    [dict |-> IF has_dict /\ Truthy(cached) THEN cached ELSE NoDict]

\* dict.get(key, default)
Get(m, key, default) == IF key \in DOMAIN m THEN m[key] ELSE default

(***************************************************************************)
(* Errors.  kind is the exception class, msg its message, attempt the      *)
(* attempt of compress_with_retry that raised it (0 outside an attempt).   *)
(***************************************************************************)
Err(kind, msg, n) == [kind |-> kind, msg |-> msg, attempt |-> n]
NoErr == Err("none", "", 0)

VARIABLES
    \* ---- arguments and construction
    src,            \* the source path of the pack
    has_cb,         \* on_progress is not None
    p_dict,         \* Packager._cached_dict
    max_retries,    \* compress_with_retry(max_retries=)
    base_delay,     \* compress_with_retry(retry_delay=)
    \* ---- the output directory of the pack
    dest,           \* the file at output_path
    tmp,            \* the file at tmp_path
    \* ---- compress_file
    c_pc,           \* position in compress_file
    tmp_path,       \* compress_file's tmp_path is not None
    loc,            \* compress_file's locals
    c_err,          \* the exception in flight, then the one raised
    dest_start,     \* the file at output_path when the call began
    moved,          \* this call has run shutil.move
    fault,          \* the exception raised inside this call
    fault_at,       \* the step of this call that raised it
    \* ---- compress_with_retry
    r_pc,           \* position in compress_with_retry
    attempt,        \* the loop variable
    retry_delay,    \* the local retry_delay
    last_error,     \* the local last_error
    sleeps,         \* the arguments of the time.sleep calls made so far
    r_err,          \* the exception compress_with_retry raised
    r_result,       \* the dict compress_with_retry returned
    \* ---- the archive between pack and unpack
    tampered,       \* somebody altered the archive after it was written
    \* ---- Unpacker and unpack
    u_dict,         \* Unpacker._cached_dict
    u_pc,           \* position in unpack
    u_loc,          \* unpack's locals
    u_out_dir,      \* the output directory exists
    u_tmp,          \* the file at unpack's tmp_path
    u_tmp_path,     \* unpack's tmp_path is not None
    u_tmp_recomp,   \* the file at _recompress_pdf_streams' tmp_recomp
    u_final,        \* the file at the final output path
    u_final_start,  \* the file at the final output path when the call began
    u_err,          \* the exception in flight, then the one raised
    u_trace         \* the steps of unpack that have run, in order

VARIABLES
    \* ---- the dictionary file and repeated packs
    dict_file,      \* the file at dict_path
    history,        \* the packs completed and the dictionaries trained on this Packager
    \* ---- a batch call: its arguments
    b_kind,         \* "pack": BatchPackager, "unpack": BatchUnpacker
    b_entry,        \* the entry point called
    jobs,           \* what each job is given, in submission order
    b_workers,      \* max_workers
    cb_mode,        \* on_progress: "none", "returns", or "faulty" (may raise)
    \* ---- the worker pool
    submitted,      \* the number of tasks submitted so far
    j_state,        \* per job: "new", "queued", "running", "done"
    j_attempt,      \* per job: the attempts its worker has made
    j_future,       \* per job: its Future
    j_seen,         \* per job: the values of _cached_dict its attempts have read
    out_fs,         \* the files at the output paths of the batch
    finish_order,   \* the jobs in the order their tasks completed
    \* ---- the main thread in _run
    b_pc,           \* position of the main thread
    prefinished,    \* as_completed: the futures done when it was called, not yet yielded
    fin_queue,      \* as_completed: the futures done since, in completion order
    acc,            \* results, failures, completed and the calls of on_progress
    b_err,          \* the exception the batch call raised
    summary         \* the summary the batch call returned

batchVars == <<b_kind, b_entry, jobs, b_workers, cb_mode, submitted, j_state, j_attempt,
               j_future, j_seen, out_fs, finish_order, b_pc, prefinished, fin_queue, acc,
               b_err, summary>>

otherVars == <<dict_file, history, batchVars>>

packFiles == <<dest, tmp>>

packVars == <<src, has_cb, p_dict, max_retries, base_delay, dest, tmp, c_pc, tmp_path,
              loc, c_err, dest_start, moved, fault, fault_at, r_pc, attempt, retry_delay,
              last_error, sleeps, r_err, r_result>>

unpackVars == <<tampered, u_dict, u_pc, u_loc, u_out_dir, u_tmp, u_tmp_path, u_final,
                u_final_start, u_err, u_trace, u_tmp_recomp>>

vars == <<packVars, unpackVars, otherVars>>

OldFile == File(<<[t |-> "old"]>>)

LstripDot(ext) ==
    CASE ext = ".txt" -> "txt"
      [] ext = ".exe" -> "exe"
      [] OTHER -> ext

NoLocals == [original_size |-> 0, checksum |-> <<>>, manifest |-> [original_filename |-> ""],
             cctx |-> _build_compressor(NoDict, FALSE), chunk_size |-> 0,
             bytes_read |-> 0, started |-> FALSE, calls |-> <<>>]
NoResult == [success |-> FALSE, original_size |-> 0, attempt |-> 0]

\* a call not yet started: nothing written, no attempt made
PackStart ==
    /\ has_cb \in BOOLEAN
    /\ dest \in {Absent, OldFile}
    /\ tmp = Absent
    /\ c_pc = "idle"
    /\ tmp_path = FALSE
    /\ loc = NoLocals
    /\ c_err = NoErr
    /\ dest_start = dest
    /\ moved = FALSE
    /\ fault = NoErr
    /\ fault_at = ""
    /\ r_pc = "loop"
    /\ attempt = 0
    /\ retry_delay = base_delay
    /\ last_error = NoErr
    /\ sleeps = <<>>
    /\ r_err = NoErr
    /\ r_result = NoResult

PackInit ==
    /\ src \in Sources
    /\ p_dict \in DictStates
    /\ max_retries \in -1 .. MaxRetries
    /\ base_delay \in 1 .. MaxDelay
    /\ PackStart

NoULocals == [manifest |-> [original_filename |-> ""], magic |-> "", version |-> 0,
              dctx |-> _build_decompressor(FALSE, NoDict), pos |-> 0, in_frame |-> FALSE,
              frame_id |-> 0, actual_checksum |-> <<>>]

UnpackInit ==
    /\ tampered = FALSE
    /\ u_dict = NoDict
    /\ u_pc = "idle"
    /\ u_loc = NoULocals
    /\ u_out_dir = FALSE
    /\ u_tmp = Absent
    /\ u_tmp_path = FALSE
    /\ u_tmp_recomp = Absent
    /\ u_final = Absent
    /\ u_final_start = Absent
    /\ u_err = NoErr
    /\ u_trace = <<>>

(***************************************************************************)
(* Packager.compress_file, one action per step.                            *)
(***************************************************************************)
argVars == <<src, has_cb, p_dict, max_retries, base_delay, unpackVars, otherVars>>
retryVars == <<r_pc, attempt, retry_delay, last_error, sleeps, r_err, r_result>>

\* raise inside the try block: the except clause logs and re-raises, the finally
\* clause runs next
Raise(e, place) ==
    /\ c_pc' = "finally"
    /\ c_err' = e
    /\ fault' = e
    /\ fault_at' = place

\* TooLarge with the ceiling itself refused
TooLargeAtCeiling(size) == size >= MAX_FILE_SIZE

\* line 90: strictly larger than the ceiling
TooLarge(size) == size > MAX_FILE_SIZE

\* lines 81-94: the checks on the source, before any side effect
Validate ==
    /\ c_pc = "validate"
    /\ IF src.ext \notin SUPPORTED_FORMATS
         THEN Raise(Err("ValueError", "unsupported", attempt), "validate") /\ UNCHANGED loc
       ELSE IF ~src.exists
         THEN Raise(Err("FileNotFoundError", "", attempt), "getsize") /\ UNCHANGED loc
       ELSE IF src.size = 0
         THEN Raise(Err("ValueError", "empty", attempt), "validate") /\ UNCHANGED loc
       ELSE IF TooLarge(src.size)
         THEN Raise(Err("ValueError", "too_large", attempt), "validate") /\ UNCHANGED loc
       ELSE /\ c_pc' = "checksum"
            /\ loc' = [loc EXCEPT !.original_size = src.size]
            /\ UNCHANGED <<c_err, fault, fault_at>>
    /\ UNCHANGED <<argVars, retryVars, dest, tmp, tmp_path, dest_start, moved>>

\* lines 96-98: the checksum of the source, then the compressor, built on the
\* cached dictionary as it is now
BuildCompressor ==
    /\ c_pc = "checksum"
    /\ c_pc' = "manifest"
    /\ loc' = [loc EXCEPT
                 !.checksum = _checksum_file(src),
                 !.cctx = _build_compressor(p_dict, has_cb)]
    /\ UNCHANGED <<argVars, retryVars, dest, tmp, tmp_path, c_err, dest_start, moved, fault, fault_at>>

\* lines 100-108: the manifest; has_dict reads the cached dictionary again
BuildManifest ==
    /\ c_pc = "manifest"
    /\ c_pc' = "mkstemp"
    /\ loc' = [loc EXCEPT
                 !.manifest = [original_filename |-> "source",
                               original_size |-> loc.original_size,
                               compression_level |-> "high",
                               format |-> LstripDot(src.ext),
                               checksum |-> loc.checksum,
                               has_dict |-> IsNotNone(p_dict)]]
    /\ UNCHANGED <<argVars, retryVars, dest, tmp, tmp_path, c_err, dest_start, moved, fault, fault_at>>

\* line 96: reading the source for the checksum fails
ChecksumFault ==
    /\ c_pc = "checksum"
    /\ Raise(Err("OSError", "", attempt), "checksum")
    /\ UNCHANGED <<argVars, retryVars, dest, tmp, tmp_path, loc, dest_start, moved>>

\* Mkstemp with the temp file opened at output_path itself
MkstempAtOutput ==
    /\ c_pc = "mkstemp"
    /\ c_pc' = "header"
    /\ tmp' = File(<<>>)
    /\ dest' = File(<<>>)
    /\ tmp_path' = TRUE
    /\ UNCHANGED <<argVars, retryVars, loc, c_err, dest_start, moved, fault, fault_at>>

\* lines 110-113: tempfile.mkstemp beside the destination
Mkstemp ==
    /\ c_pc = "mkstemp"
    /\ c_pc' = "header"
    /\ tmp' = File(<<>>)
    /\ tmp_path' = TRUE
    /\ UNCHANGED <<argVars, retryVars, dest, loc, c_err, dest_start, moved, fault, fault_at>>

MkstempFault ==
    /\ c_pc = "mkstemp"
    /\ Raise(Err("OSError", "", attempt), "mkstemp")
    /\ UNCHANGED <<argVars, retryVars, dest, tmp, tmp_path, loc, dest_start, moved>>

\* lines 116-118: the tag, the version and manifest length, the manifest
HeaderSections(m) ==
    <<[t |-> "magic", v |-> MAGIC], [t |-> "verlen", version |-> VERSION],
      [t |-> "manifest", m |-> m]>>

WriteHeader ==
    /\ c_pc = "header"
    /\ c_pc' = "stream"
    /\ tmp' = File(tmp.data \o HeaderSections(loc.manifest))
    /\ loc' = [loc EXCEPT !.chunk_size = _get_chunk_size(loc.original_size),
                          !.bytes_read = 0, !.started = FALSE]
    /\ UNCHANGED <<argVars, retryVars, dest, tmp_path, c_err, dest_start, moved, fault, fault_at>>

\* a write of the header fails, k of its three sections written
WriteHeaderFault ==
    /\ c_pc = "header"
    /\ \E k \in 0 .. 2 :
         tmp' = File(tmp.data \o SubSeq(HeaderSections(loc.manifest), 1, k))
    /\ Raise(Err("OSError", "", attempt), "header")
    /\ UNCHANGED <<argVars, retryVars, dest, tmp_path, loc, dest_start, moved>>

\* what compressor.write(chunk) sends to out_f: the frame header before the
\* first block, then the block
FrameHeader(cctx) == [t |-> "zhdr", dict_id |-> DictId(cctx.dict)]
CompressorWrite(cctx, started, chunk) ==
    (IF started THEN <<>> ELSE <<FrameHeader(cctx)>>)
        \o <<[t |-> "zblk", enc |-> ZstdEncode(chunk, DictId(cctx.dict))]>>
\* what closing the stream writer sends: the end of the frame
CompressorClose(cctx, started) ==
    (IF started THEN <<>> ELSE <<FrameHeader(cctx)>>) \o <<[t |-> "zend"]>>

BlockPos == loc.bytes_read \div CHUNK_SIZE

\* lines 133-134: the calls of on_progress so far, each with its two arguments
OnProgress(calls, on_progress, bytes_read, original_size) ==
    IF on_progress THEN Append(calls, <<bytes_read, original_size>>) ELSE calls

\* lines 130-134: one turn of the loop, the callback (if any) returning
StreamChunk ==
    /\ c_pc = "stream"
    /\ LET chunk == ReadChunk(src.data, BlockPos, loc.chunk_size)
       IN  IF chunk = <<>>
             THEN /\ c_pc' = "close"
                  /\ UNCHANGED <<tmp, loc>>
             ELSE /\ c_pc' = "stream"
                  /\ tmp' = File(tmp.data \o CompressorWrite(loc.cctx, loc.started, chunk))
                  /\ loc' = [loc EXCEPT
                               !.bytes_read = @ + Len(chunk) * CHUNK_SIZE,
                               !.started = TRUE,
                               !.calls = OnProgress(@, has_cb,
                                   loc.bytes_read + Len(chunk) * CHUNK_SIZE,
                                   loc.original_size)]
    /\ UNCHANGED <<argVars, retryVars, dest, tmp_path, c_err, dest_start, moved, fault, fault_at>>

\* line 130: reading the source fails
StreamReadFault ==
    /\ c_pc = "stream"
    /\ Raise(Err("OSError", "", attempt), "read")
    /\ UNCHANGED <<argVars, retryVars, dest, tmp, tmp_path, loc, dest_start, moved>>

\* line 131: compressor.write fails
StreamWriteFault ==
    /\ c_pc = "stream"
    /\ ReadChunk(src.data, BlockPos, loc.chunk_size) # <<>>
    /\ Raise(Err("OSError", "", attempt), "compress")
    /\ UNCHANGED <<argVars, retryVars, dest, tmp, tmp_path, loc, dest_start, moved>>

\* line 134: the chunk is written and on_progress raises
CallbackRaises ==
    /\ c_pc = "stream"
    /\ has_cb
    /\ LET chunk == ReadChunk(src.data, BlockPos, loc.chunk_size)
       IN  /\ chunk # <<>>
           /\ tmp' = File(tmp.data \o CompressorWrite(loc.cctx, loc.started, chunk))
           /\ loc' = [loc EXCEPT
                        !.bytes_read = @ + Len(chunk) * CHUNK_SIZE,
                        !.started = TRUE,
                        !.calls = OnProgress(@, TRUE,
                            loc.bytes_read + Len(chunk) * CHUNK_SIZE,
                            loc.original_size)]
    /\ \E k \in {"RuntimeError", "ValueError"} : Raise(Err(k, "", attempt), "callback")
    /\ UNCHANGED <<argVars, retryVars, dest, tmp_path, dest_start, moved>>

\* leaving the with blocks: the stream writer ends the frame, out_f is closed
CloseStreams ==
    /\ c_pc = "close"
    /\ c_pc' = "move"
    /\ tmp' = File(tmp.data \o CompressorClose(loc.cctx, loc.started))
    /\ UNCHANGED <<argVars, retryVars, dest, tmp_path, loc, c_err, dest_start, moved, fault, fault_at>>

CloseFault ==
    /\ c_pc = "close"
    /\ Raise(Err("OSError", "", attempt), "close")
    /\ UNCHANGED <<argVars, retryVars, dest, tmp, tmp_path, loc, dest_start, moved>>

\* lines 136-137: shutil.move(tmp_path, output_path); tmp_path = None
MoveToOutput ==
    /\ c_pc = "move"
    /\ c_pc' = "return"
    /\ dest' = tmp
    /\ tmp' = Absent
    /\ tmp_path' = FALSE
    /\ moved' = TRUE
    /\ UNCHANGED <<argVars, retryVars, loc, c_err, dest_start, fault, fault_at>>

MoveFault ==
    /\ c_pc = "move"
    /\ Raise(Err("OSError", "", attempt), "move")
    /\ UNCHANGED <<argVars, retryVars, dest, tmp, tmp_path, loc, dest_start, moved>>

\* lines 139-157: the result; the finally clause runs next
Return ==
    /\ c_pc = "return"
    /\ c_pc' = "finally"
    /\ r_result' = [success |-> TRUE, original_size |-> loc.original_size,
                    attempt |-> attempt]
    /\ UNCHANGED <<argVars, r_pc, attempt, retry_delay, last_error, sleeps, r_err,
                   dest, tmp, tmp_path, loc, c_err, dest_start, moved, fault, fault_at>>

\* FinallyRemoves with the cleanup left out
FinallyRemovesNever == FALSE

\* lines 162-164: if tmp_path and os.path.exists(tmp_path): os.remove(tmp_path)
FinallyRemoves == tmp_path /\ tmp.exists

Finally ==
    /\ c_pc = "finally"
    /\ tmp' = IF FinallyRemoves THEN Absent ELSE tmp
    /\ c_pc' = IF c_err = NoErr THEN "returned" ELSE "raised"
    /\ UNCHANGED <<argVars, retryVars, dest, tmp_path, loc, c_err, dest_start, moved, fault, fault_at>>

\* the process is killed inside compress_file: nothing more runs
InCall == c_pc \in {"validate", "checksum", "manifest", "mkstemp", "header", "stream",
                    "close", "move", "return", "finally"}

Crash ==
    /\ InCall
    /\ c_pc' = "crashed"
    /\ r_pc' = "crashed"
    /\ UNCHANGED <<argVars, attempt, retry_delay, last_error, sleeps, r_err, r_result,
                   dest, tmp, tmp_path, loc, c_err, dest_start, moved, fault, fault_at>>

compress_file ==
    \/ Validate
    \/ BuildCompressor
    \/ BuildManifest
    \/ ChecksumFault
    \/ Mkstemp
    \/ MkstempFault
    \/ WriteHeader
    \/ WriteHeaderFault
    \/ StreamChunk
    \/ StreamReadFault
    \/ StreamWriteFault
    \/ CallbackRaises
    \/ CloseStreams
    \/ CloseFault
    \/ MoveToOutput
    \/ MoveFault
    \/ Return
    \/ Finally
    \/ Crash

(***************************************************************************)
(* Packager.compress_with_retry.                                           *)
(***************************************************************************)
\* IsPermanent with no except ValueError clause
IsPermanentNever(e) == FALSE
\* SleepsAfter with the sleep made after every failed attempt
SleepsAlways(n) == TRUE
\* NextDelay with a linear backoff
NextDelayLinear(d) == d + base_delay

\* except ValueError: permanent, re-raised
IsPermanent(e) == e.kind = "ValueError"
\* if attempt < max_retries: sleep and double the delay
SleepsAfter(n) == n < max_retries
\* retry_delay *= 2
NextDelay(d) == d * 2

callVars == <<dest, tmp, tmp_path, loc, c_err, dest_start, moved, fault, fault_at>>

\* for attempt in range(1, max_retries + 1): return self.compress_file(...)
RetryAttempt ==
    /\ r_pc = "loop"
    /\ attempt + 1 <= max_retries
    /\ attempt' = attempt + 1
    /\ r_pc' = "call"
    /\ c_pc' = "validate"
    /\ tmp_path' = FALSE
    /\ loc' = NoLocals
    /\ c_err' = NoErr
    /\ fault' = NoErr
    /\ fault_at' = ""
    /\ dest_start' = dest
    /\ moved' = FALSE
    /\ UNCHANGED <<argVars, retry_delay, last_error, sleeps, r_err, r_result, dest, tmp>>

\* the loop is over: raise last_error (raise None is a TypeError)
RetryExhausted ==
    /\ r_pc = "loop"
    /\ ~(attempt + 1 <= max_retries)
    /\ r_pc' = "raised"
    /\ r_err' = IF last_error = NoErr THEN Err("TypeError", "raise None", 0)
                ELSE last_error
    /\ UNCHANGED <<argVars, attempt, retry_delay, last_error, sleeps, r_result, c_pc,
                   callVars>>

RetryReturn ==
    /\ r_pc = "call"
    /\ c_pc = "returned"
    /\ r_pc' = "returned"
    /\ c_pc' = "idle"
    /\ UNCHANGED <<argVars, attempt, retry_delay, last_error, sleeps, r_err, r_result,
                   callVars>>

RetryPermanent ==
    /\ r_pc = "call"
    /\ c_pc = "raised"
    /\ IsPermanent(c_err)
    /\ r_pc' = "raised"
    /\ r_err' = c_err
    /\ c_pc' = "idle"
    /\ UNCHANGED <<argVars, attempt, retry_delay, last_error, sleeps, r_result, callVars>>

RetryTransient ==
    /\ r_pc = "call"
    /\ c_pc = "raised"
    /\ ~IsPermanent(c_err)
    /\ last_error' = c_err
    /\ IF SleepsAfter(attempt)
         THEN /\ sleeps' = Append(sleeps, retry_delay)
              /\ retry_delay' = NextDelay(retry_delay)
         ELSE UNCHANGED <<sleeps, retry_delay>>
    /\ r_pc' = "loop"
    /\ c_pc' = "idle"
    /\ UNCHANGED <<argVars, attempt, r_err, r_result, callVars>>

compress_with_retry ==
    \/ RetryAttempt
    \/ RetryExhausted
    \/ RetryReturn
    \/ RetryPermanent
    \/ RetryTransient

(***************************************************************************)
(* The archive between pack and unpack: unpack reads whatever file is at   *)
(* the path, which somebody may have altered since it was written.         *)
(***************************************************************************)
RemoveKey(m, key) == [x \in DOMAIN m \ {key} |-> m[x]]
SetKey(m, key, v) == [x \in DOMAIN m \cup {key} |-> IF x = key THEN v ELSE m[x]]

\* a digest other than h
OtherDigest(h) == <<h[1] + 1>>

\* version bytes that no packager writes
OtherVersions == {0, VERSION + 1, 255}

\* visual_packager.py lines 187-210: the tag and the manifest of a visual
\* archive, around the same payload
VisualArchive(data) ==
    [data EXCEPT ![1] = [t |-> "magic", v |-> "ZPKV"],
                 ![3] = [t |-> "manifest",
                         m |-> SetKey(SetKey(data[3].m, "format", "pdf"), "mode", "visual")]]

AlteredManifests(m) ==
    {RemoveKey(m, "checksum"),
     RemoveKey(m, "original_filename"),
     SetKey(m, "checksum", <<>>),
     SetKey(m, "checksum", OtherDigest(m.checksum)),
     SetKey(m, "has_dict", ~m.has_dict)}

Altered(data) ==
    \* the manifest rewritten
    {[data EXCEPT ![3] = [t |-> "manifest", m |-> m2]] : m2 \in AlteredManifests(data[3].m)}
    \* another tag
    \cup {[data EXCEPT ![1] = [t |-> "magic", v |-> g]] : g \in {"ZPKV", "ZPKL", "JUNK"}}
    \* another version byte
    \cup {[data EXCEPT ![2] = [t |-> "verlen", version |-> v]] : v \in OtherVersions}
    \* the archive that VisualPackager writes for the same bytes
    \cup {VisualArchive(data)}
    \* the file cut short
    \cup {SubSeq(data, 1, k) : k \in 1 .. Len(data) - 1}
    \* a block of the payload replaced by another well-formed block
    \cup {[data EXCEPT ![i] = [t |-> "zblk", enc |-> ZstdEncode(<<v>>, data[4].dict_id)]] :
            i \in {j \in 5 .. Len(data) : data[j].t = "zblk"},
            v \in BlockVals}

Tamper ==
    /\ r_pc = "returned"
    /\ u_pc = "idle"
    /\ ~tampered
    /\ \E d \in Altered(dest.data) \ {dest.data} : dest' = File(d)
    /\ tampered' = TRUE
    /\ UNCHANGED <<src, has_cb, p_dict, max_retries, base_delay, tmp, c_pc, tmp_path, loc,
                   c_err, dest_start, moved, fault, fault_at, retryVars, u_dict, u_pc,
                   u_loc, u_out_dir, u_tmp, u_tmp_path, u_final, u_final_start, u_err,
                   u_trace, u_tmp_recomp, otherVars>>

(***************************************************************************)
(* Unpacker.unpack, one action per step.                                   *)
(***************************************************************************)
OldOutput == File(<<0, 0, 0>>)

packFrame == <<src, has_cb, p_dict, max_retries, base_delay, packFiles, c_pc, tmp_path,
               loc, c_err, dest_start, moved, fault, fault_at, retryVars, tampered, u_dict,
               u_final_start, otherVars>>

\* what every step of unpack but _recompress_pdf_streams leaves alone
uFrame == <<packFrame, u_tmp_recomp>>

\* Unpacker(dict_path) is built and unpack(package_path, output_dir) is called
UnpackStart ==
    /\ r_pc \in {"returned", "raised"}
    /\ u_pc = "idle"
    /\ dest.exists
    /\ u_dict' \in DictStates
    /\ u_final' \in {Absent, OldOutput}
    /\ u_final_start' = u_final'
    /\ u_pc' = "magic"
    /\ UNCHANGED <<src, has_cb, p_dict, max_retries, base_delay, packFiles, c_pc, tmp_path,
                   loc, c_err, dest_start, moved, fault, fault_at, retryVars, tampered,
                   u_loc, u_out_dir, u_tmp, u_tmp_path, u_err, u_trace, u_tmp_recomp,
                   otherVars>>

URaise(e) ==
    /\ u_pc' = "finally"
    /\ u_err' = e

IsSection(data, i, t) == i <= Len(data) /\ data[i].t = t

\* lines 49-51: the tag
ReadMagic ==
    /\ u_pc = "magic"
    /\ LET magic == IF IsSection(dest.data, 1, "magic") THEN dest.data[1].v ELSE ""
       IN  IF magic \notin UNPACK_MAGICS
             THEN URaise(Err("ValueError", "bad magic", 0)) /\ UNCHANGED u_loc
             ELSE /\ u_pc' = "header"
                  /\ u_loc' = [u_loc EXCEPT !.magic = magic]
                  /\ UNCHANGED u_err
    /\ UNCHANGED <<uFrame, u_out_dir, u_tmp, u_tmp_path, u_final, u_trace>>

\* lines 53-59: version and length, the manifest, the output directory, the
\* decompressor
ReadHeader ==
    /\ u_pc = "header"
    /\ IF ~IsSection(dest.data, 2, "verlen")
         THEN URaise(Err("struct.error", "", 0)) /\ UNCHANGED <<u_loc, u_out_dir>>
       ELSE IF ~IsSection(dest.data, 3, "manifest")
         THEN URaise(Err("ValueError", "json", 0)) /\ UNCHANGED <<u_loc, u_out_dir>>
       ELSE LET manifest == dest.data[3].m
            IN  /\ u_loc' = [u_loc EXCEPT
                               !.version = dest.data[2].version,
                               !.manifest = manifest,
                               !.dctx = _build_decompressor(
                                            Get(manifest, "has_dict", FALSE), u_dict),
                               !.pos = 3]
                /\ u_out_dir' = TRUE
                /\ u_pc' = "mkstemp"
                /\ UNCHANGED u_err
    /\ UNCHANGED <<uFrame, u_tmp, u_tmp_path, u_final, u_trace>>

\* line 61: tempfile.mkstemp in the output directory
UMkstemp ==
    /\ u_pc = "mkstemp"
    /\ u_tmp' = File(<<>>)
    /\ u_tmp_path' = TRUE
    /\ u_pc' = "decompress"
    /\ UNCHANGED <<uFrame, u_loc, u_out_dir, u_final, u_err, u_trace>>

\* lines 64-66: one reader.read(CHUNK_SIZE) and the write of what it returned.
\* The reader takes the frame header first (a frame that names a dictionary the
\* decompressor does not hold is refused), then a block per read, and returns
\* nothing at the end of the frame or of the file.
DecompressChunk ==
    /\ u_pc = "decompress"
    /\ LET i == u_loc.pos + 1
           data == dest.data
       IN  IF i > Len(data) \/ IsSection(data, i, "zend")
             THEN /\ u_pc' = "verify"
                  /\ u_trace' = Append(u_trace, "decompressed")
                  /\ UNCHANGED <<u_loc, u_tmp, u_err>>
           ELSE IF ~u_loc.in_frame
             THEN IF IsSection(data, i, "zhdr")
                     /\ data[i].dict_id \in {0, DictId(u_loc.dctx.dict)}
                    THEN /\ u_loc' = [u_loc EXCEPT !.pos = i, !.in_frame = TRUE,
                                                   !.frame_id = data[i].dict_id]
                         /\ UNCHANGED <<u_pc, u_tmp, u_err, u_trace>>
                    ELSE /\ URaise(Err("ZstdError", "", 0))
                         /\ UNCHANGED <<u_loc, u_tmp, u_trace>>
           ELSE IF IsSection(data, i, "zblk")
             THEN /\ u_tmp' = File(u_tmp.data \o ZstdDecode(data[i].enc, u_loc.frame_id))
                  /\ u_loc' = [u_loc EXCEPT !.pos = i]
                  /\ UNCHANGED <<u_pc, u_err, u_trace>>
           ELSE /\ URaise(Err("ZstdError", "", 0))
                /\ UNCHANGED <<u_loc, u_tmp, u_trace>>
    /\ UNCHANGED <<uFrame, u_out_dir, u_tmp_path, u_final>>

\* line 66: out_f.write fails
UWriteFault ==
    /\ u_pc = "decompress"
    /\ u_loc.in_frame
    /\ IsSection(dest.data, u_loc.pos + 1, "zblk")
    /\ URaise(Err("OSError", "", 0))
    /\ UNCHANGED <<uFrame, u_loc, u_out_dir, u_tmp, u_tmp_path, u_final, u_trace>>

\* VerifiesChecksum with the verification never made
VerifiesNever(manifest) == FALSE

\* lines 69-76: stored_checksum = manifest.get('checksum'); if stored_checksum: ...
VerifiesChecksum(manifest) == Get(manifest, "checksum", <<>>) # <<>>

\* lines 79-80: a visual archive goes through _recompress_pdf_streams
AfterVerify(manifest) ==
    IF Get(manifest, "mode", "") = "visual" THEN "recompress" ELSE "move"

VerifyChecksum ==
    /\ u_pc = "verify"
    /\ IF VerifiesChecksum(u_loc.manifest)
         THEN LET actual == _checksum_file(u_tmp)
              IN  /\ u_loc' = [u_loc EXCEPT !.actual_checksum = actual]
                  /\ IF actual # u_loc.manifest.checksum
                       THEN /\ URaise(Err("ValueError", "checksum mismatch", 0))
                            /\ UNCHANGED u_trace
                       ELSE /\ u_pc' = AfterVerify(u_loc.manifest)
                            /\ u_trace' = Append(u_trace, "verified")
                            /\ UNCHANGED u_err
         ELSE /\ u_pc' = AfterVerify(u_loc.manifest)
              /\ u_trace' = Append(u_trace, "skipped")
              /\ UNCHANGED <<u_loc, u_err>>
    /\ UNCHANGED <<uFrame, u_out_dir, u_tmp, u_tmp_path, u_final>>

\* what doc.tobytes(deflate=True) returns: the document with its streams
\* deflated again, other bytes than the ones read
PdfDeflate(data) == [i \in 1 .. Len(data) |-> data[i] + MaxBlockVal + 1]

\* lines 112-134: the PDF written again through a second temp file beside the
\* first; whatever fails inside is logged and swallowed.
\*   "ok"      every line runs
\*   "early"   import fitz or mkstemp fails: no second temp file yet
\*   "write"   fitz.open, tobytes or the write fails after mkstemp
\*   "remove"  os.remove(pdf_path) fails
\*   "rename"  os.rename fails after the os.remove
_recompress_pdf_streams ==
    /\ u_pc = "recompress"
    /\ u_pc' = "move"
    /\ \E outcome \in {"ok", "early", "write", "remove", "rename"} :
         CASE outcome = "ok" ->
                /\ u_tmp' = File(PdfDeflate(u_tmp.data))
                /\ u_tmp_recomp' = Absent
           [] outcome = "early" ->
                UNCHANGED <<u_tmp, u_tmp_recomp>>
           [] outcome = "write" ->
                /\ u_tmp_recomp' = File(<<>>)
                /\ UNCHANGED u_tmp
           [] outcome = "remove" ->
                /\ u_tmp_recomp' = File(PdfDeflate(u_tmp.data))
                /\ UNCHANGED u_tmp
           [] outcome = "rename" ->
                /\ u_tmp_recomp' = File(PdfDeflate(u_tmp.data))
                /\ u_tmp' = Absent
    /\ UNCHANGED <<packFrame, u_loc, u_out_dir, u_tmp_path, u_final, u_err, u_trace>>

\* RequiredFields with the checksum required as well
RequiredFieldsWithChecksum == {"original_filename", "checksum"}

\* line 83: the one field read with manifest[...]; the others are read with
\* manifest.get(...)
RequiredFields == {"original_filename"}

\* lines 83-85: final_path = out_dir / manifest['original_filename'];
\* shutil.move(tmp_path, final_path); tmp_path = None
UMove ==
    /\ u_pc = "move"
    /\ IF ~(RequiredFields \subseteq DOMAIN u_loc.manifest)
         THEN /\ URaise(Err("KeyError",
                     CHOOSE k \in RequiredFields \ DOMAIN u_loc.manifest : TRUE, 0))
              /\ UNCHANGED <<u_tmp, u_tmp_path, u_final, u_trace>>
       ELSE IF ~u_tmp.exists
         THEN /\ URaise(Err("FileNotFoundError", "", 0))
              /\ UNCHANGED <<u_tmp, u_tmp_path, u_final, u_trace>>
         ELSE /\ u_final' = u_tmp
              /\ u_tmp' = Absent
              /\ u_tmp_path' = FALSE
              /\ u_trace' = Append(u_trace, "moved")
              /\ u_pc' = "finally"
              /\ UNCHANGED u_err
    /\ UNCHANGED <<uFrame, u_loc, u_out_dir>>

\* UFinallyRemoves with the cleanup left out
UFinallyRemovesNever == FALSE

\* lines 102-104: if tmp_path and os.path.exists(tmp_path): os.remove(tmp_path)
UFinallyRemoves == u_tmp_path /\ u_tmp.exists

UFinally ==
    /\ u_pc = "finally"
    /\ u_tmp' = IF UFinallyRemoves THEN Absent ELSE u_tmp
    /\ u_pc' = IF u_err = NoErr THEN "returned" ELSE "raised"
    /\ UNCHANGED <<uFrame, u_loc, u_out_dir, u_tmp_path, u_final, u_err, u_trace>>

unpack ==
    \/ UnpackStart
    \/ ReadMagic
    \/ ReadHeader
    \/ UMkstemp
    \/ DecompressChunk
    \/ UWriteFault
    \/ VerifyChecksum
    \/ _recompress_pdf_streams
    \/ UMove
    \/ UFinally

(***************************************************************************)
(* BatchPackager / BatchUnpacker: one batch call.  The main thread submits *)
(* one task per job to a pool of max_workers threads and drains the        *)
(* completed tasks; each worker runs _compress_one or _decompress_one on   *)
(* the shared Packager or Unpacker.  What a job does to the file system is *)
(* one rename onto its output path when it succeeds, and nothing when it   *)
(* fails (compress_file and unpack above).                                 *)
(***************************************************************************)
\* the i-th input path of a batch, all different: two suffixes to a stem (a.txt
\* and a.csv, then b.txt and b.csv)
InputPath(i) == [stem |-> (i - 1) \div 2, ext |-> (i - 1) % 2]

\* lines 101-104: Path(output_dir) / (Path(f).stem + '.zpkg') for a pack job;
\* unpacker.py line 83: out_dir / manifest['original_filename'] for an unpack job,
\* the archives of a batch holding files of different names
OutputPath(kind, i) ==
    IF kind = "pack" THEN [dir |-> "out", stem |-> InputPath(i).stem, ext |-> "zpkg"]
    ELSE [dir |-> "out", stem |-> i, ext |-> "orig"]

\* os.path.getsize of the i-th source, in bytes, and of the archive made of it
OriginalSize(i) == i * CHUNK_SIZE
ArchiveSize(i) == 9 + i

\* what a batch job is given: a good source or archive, or one that is refused
PackKinds == {"ok", "empty", "missing"}
UnpackKinds == {"ok", "junk", "nosize"}

\* a task's Future: not done, a result, or an exception
NoFuture == [state |-> "pending"]
Result(r) == [state |-> "result", result |-> r]
Exception(e) == [state |-> "exception", error |-> e]

\* compress_file's return value with _compress_one's input_file (lines 149-157, 169)
PackResult(i, compressed) ==
    [input_file |-> InputPath(i), output_file |-> OutputPath("pack", i),
     original_size |-> <<OriginalSize(i)>>, compressed_size |-> compressed]

\* unpack's return value with _decompress_one's input_file (unpacker.py 89-94):
\* original_size is manifest.get('original_size'), None (<<>>) without the field
UnpackResult(i, kind) ==
    [input_file |-> InputPath(i), output_path |-> OutputPath("unpack", i),
     original_size |-> IF kind = "nosize" THEN <<>> ELSE <<OriginalSize(i)>>]

\* Failure with the path of the job submitted next
FailureStale(i, e) == [file |-> InputPath(i + 1), error |-> e.msg]

\* str(inp) and str(e) of a failure entry
Failure(i, e) == [file |-> InputPath(i), error |-> e.msg]

RECURSIVE SumOf(_, _)
\* sum(r[field] for r in results)
SumOf(results, field) ==
    IF results = <<>> THEN 0
    ELSE Head(results)[field] + SumOf(Tail(results), field)

RECURSIVE SumOfSizes(_)
\* sum(r.get('original_size', 0) for r in results), sizes that are not None
SumOfSizes(results) ==
    IF results = <<>> THEN 0
    ELSE Head(results).original_size[1] + SumOfSizes(Tail(results))

\* (1 - total_compressed / total_original) * 100, as an exact fraction
Percent(total_compressed, total_original) ==
    [num |-> (total_original - total_compressed) * 100, den |-> total_original]
ZeroPercent == [num |-> 0, den |-> 1]

\* _build_summary with the failures left out of the total
_build_summary_short(kind, results, failures) ==
    IF kind = "pack"
      THEN [success |-> Len(failures) = 0,
            total |-> Len(results),
            succeeded |-> Len(results),
            failed |-> Len(failures),
            failures |-> failures,
            results |-> results,
            total_original_size |-> SumOfSizes(results),
            total_compressed_size |-> SumOf(results, "compressed_size"),
            overall_saving_percent |->
                IF SumOfSizes(results) > 0
                  THEN Percent(SumOf(results, "compressed_size"), SumOfSizes(results))
                  ELSE ZeroPercent]
      ELSE [success |-> Len(failures) = 0,
            total |-> Len(results),
            succeeded |-> Len(results),
            failed |-> Len(failures),
            failures |-> failures,
            results |-> results,
            total_restored_size |-> SumOfSizes(results)]

\* batch_packager.py lines 172-201, batch_unpacker.py lines 154-174
_build_summary(kind, results, failures) ==
    IF kind = "pack"
      THEN [success |-> Len(failures) = 0,
            total |-> Len(results) + Len(failures),
            succeeded |-> Len(results),
            failed |-> Len(failures),
            failures |-> failures,
            results |-> results,
            total_original_size |-> SumOfSizes(results),
            total_compressed_size |-> SumOf(results, "compressed_size"),
            overall_saving_percent |->
                IF SumOfSizes(results) > 0
                  THEN Percent(SumOf(results, "compressed_size"), SumOfSizes(results))
                  ELSE ZeroPercent]
      ELSE [success |-> Len(failures) = 0,
            total |-> Len(results) + Len(failures),
            succeeded |-> Len(results),
            failed |-> Len(failures),
            failures |-> failures,
            results |-> results,
            total_restored_size |-> SumOfSizes(results)]

\* the sum of _build_summary adds an int and None: TypeError
SummaryRaises(kind, results) ==
    \E k \in 1 .. Len(results) : results[k].original_size = <<>>

\* batch_packager.py lines 203-215, batch_unpacker.py lines 176-186
_empty_summary(kind) ==
    IF kind = "pack"
      THEN [success |-> TRUE, total |-> 0, succeeded |-> 0, failed |-> 0,
            failures |-> <<>>, results |-> <<>>, total_original_size |-> 0,
            total_compressed_size |-> 0, overall_saving_percent |-> ZeroPercent]
      ELSE [success |-> TRUE, total |-> 0, succeeded |-> 0, failed |-> 0,
            failures |-> <<>>, results |-> <<>>, total_restored_size |-> 0]

\* the exception of a progress callback that raises
CallbackError == Err("CallbackError", "callback", 0)

\* what the loop of _run has accumulated
NoAcc(total) == [results |-> <<>>, failures |-> <<>>, completed |-> 0, total |-> total,
                 calls |-> <<>>, err |-> NoErr]

\* on_progress(completed, total, entry)
Call(st, entry) == [completed |-> st.completed, total |-> st.total, entry |-> entry]

\* lines 145-155: the except clause of the loop body; an exception of the callback
\* called here leaves the loop
RecordFailure(st, i, e, has_callback, raises) ==
    LET failure == Failure(i, e)
    IN  [st EXCEPT !.failures = Append(@, failure),
                    !.calls = IF has_callback THEN Append(@, Call(st, failure)) ELSE @,
                    !.err = IF has_callback /\ raises THEN CallbackError ELSE @]

\* lines 129-155: the body of the loop over as_completed for the future of job i;
\* raises1 and raises2: the callback raises when called in the try block, in the
\* except clause
LoopBody(st, i, fut, has_callback, raises1, raises2) ==
    LET a1 == [st EXCEPT !.completed = @ + 1]
    IN  IF fut.state = "result"
          THEN LET a2 == [a1 EXCEPT
                            !.results = Append(@, fut.result),
                            !.calls = IF has_callback THEN Append(@, Call(a1, fut.result))
                                      ELSE @]
               IN  IF has_callback /\ raises1
                     THEN RecordFailure(a2, i, CallbackError, has_callback, raises2)
                     ELSE a2
          ELSE RecordFailure(a1, i, fut.error, has_callback, raises2)

\* the dictionary file at dict_path: none, an empty file, a trained dictionary
DictFiles == {Absent, File(<<>>), File(<<1>>)}

\* _load_dictionary: the cache is set when the file exists, left alone otherwise
_load_dictionary(file, cached) ==
    IF file.exists THEN [loaded |-> TRUE, data |-> file.data] ELSE cached

NumJobs == Len(jobs)
JobIds == 1 .. NumJobs
HasCallback == cb_mode # "none"
\* a faulty callback may raise at any call
MayRaise == IF cb_mode = "faulty" THEN BOOLEAN ELSE {FALSE}

NoSummary == [success |-> FALSE, total |-> -1]
NoFile == [exists |-> FALSE, job |-> 0]

BatchIdle ==
    /\ b_kind = "pack"
    /\ b_entry = "files"
    /\ jobs = <<>>
    /\ b_workers = 1
    /\ cb_mode = "none"
    /\ submitted = 0
    /\ j_state = <<>>
    /\ j_attempt = <<>>
    /\ j_future = <<>>
    /\ j_seen = <<>>
    /\ out_fs = <<>>
    /\ finish_order = <<>>
    /\ b_pc = "idle"
    /\ prefinished = {}
    /\ fin_queue = <<>>
    /\ acc = NoAcc(0)
    /\ b_err = NoErr
    /\ summary = NoSummary

\* the job lists of a batch
JobLists(kind) ==
    UNION {[1 .. n -> IF kind = "pack" THEN PackKinds ELSE UnpackKinds] : n \in 0 .. MaxJobs}

\* BatchPackager(...) or BatchUnpacker(...) is built: its Packager or Unpacker
\* loads the dictionary (batch_packager.py line 33, batch_unpacker.py line 25)
BatchInit ==
    /\ b_kind \in {"pack", "unpack"}
    /\ b_entry \in {"files", "directory", "missing_dir"}
    /\ jobs \in JobLists(b_kind)
    \* the entry points differ in how the job list is made: they are told apart
    \* when it is empty
    /\ b_entry # "files" => jobs = <<>>
    /\ b_workers \in 1 .. MaxWorkers
    /\ cb_mode \in {"none", "returns", "faulty"}
    /\ submitted = 0
    /\ j_state = [i \in JobIds |-> "new"]
    /\ j_attempt = [i \in JobIds |-> 0]
    /\ j_future = [i \in JobIds |-> NoFuture]
    /\ j_seen = [i \in JobIds |-> {}]
    /\ out_fs = [q \in {OutputPath(b_kind, i) : i \in JobIds} |-> NoFile]
    /\ finish_order = <<>>
    /\ b_pc = "idle"
    /\ prefinished = {}
    /\ fin_queue = <<>>
    /\ acc = NoAcc(NumJobs)
    /\ b_err = NoErr
    /\ summary = NoSummary

mainVars == <<b_pc, prefinished, fin_queue, acc, b_err, summary>>
poolVars == <<j_state, j_attempt, j_future, j_seen, out_fs, finish_order>>
batchArgs == <<b_kind, b_entry, jobs, b_workers, cb_mode>>
singleVars == <<packVars, unpackVars, dict_file, history>>

\* compress_directory lines 54-72, compress_files lines 101-106 (decompress_directory,
\* decompress_files alike): the input directory must exist, a directory with no
\* file to work on gives the empty summary, and _run is entered otherwise
BatchCall ==
    /\ b_pc = "idle"
    /\ IF b_entry = "missing_dir"
         THEN /\ b_pc' = "raised"
              /\ b_err' = Err("ValueError", "Input directory not found", 0)
              /\ UNCHANGED summary
       ELSE IF b_entry = "directory" /\ jobs = <<>>
         THEN /\ b_pc' = "returned"
              /\ summary' = _empty_summary(b_kind)
              /\ UNCHANGED b_err
       ELSE /\ b_pc' = "mkdirs"
            /\ UNCHANGED <<b_err, summary>>
    /\ UNCHANGED <<singleVars, batchArgs, submitted, poolVars, prefinished, fin_queue, acc>>

\* _run lines 119-121: the output directories
Mkdirs ==
    /\ b_pc = "mkdirs"
    /\ b_pc' = "submit"
    /\ UNCHANGED <<singleVars, batchArgs, submitted, poolVars, prefinished, fin_queue, acc,
                   b_err, summary>>

\* mkdir fails: the batch call raises before the pool exists
MkdirsFault ==
    /\ b_pc = "mkdirs"
    /\ jobs # <<>>
    /\ b_pc' = "raised"
    /\ b_err' = Err("OSError", "mkdir", 0)
    /\ UNCHANGED <<singleVars, batchArgs, submitted, poolVars, prefinished, fin_queue, acc,
                   summary>>

\* lines 124-127: executor.submit for the next job
Submit ==
    /\ b_pc = "submit"
    /\ submitted < NumJobs
    /\ submitted' = submitted + 1
    /\ j_state' = [j_state EXCEPT ![submitted + 1] = "queued"]
    /\ UNCHANGED <<singleVars, batchArgs, j_attempt, j_future, j_seen, out_fs, finish_order,
                   mainVars>>

\* line 129: as_completed(future_to_job) is called.  The futures already done are
\* yielded first, in the order of a set; the others as they complete.
AsCompleted ==
    /\ b_pc = "submit"
    /\ submitted = NumJobs
    /\ prefinished' = {i \in JobIds : j_state[i] = "done"}
    /\ b_pc' = IF NumJobs = 0 THEN "shutdown" ELSE "drain"
    /\ UNCHANGED <<singleVars, batchArgs, submitted, poolVars, fin_queue, acc, b_err, summary>>

\* after the body for job i: the loop goes on, is over, or was left by an exception
AfterBody(a) ==
    IF a.err # NoErr \/ a.completed = NumJobs THEN "shutdown" ELSE "drain"

\* lines 129-155: as_completed yields the future of job i and the body runs
Drain(i) ==
    /\ b_pc = "drain"
    /\ IF prefinished # {} THEN i \in prefinished
       ELSE fin_queue # <<>> /\ i = Head(fin_queue)
    /\ prefinished' = prefinished \ {i}
    /\ fin_queue' = IF prefinished # {} THEN fin_queue ELSE Tail(fin_queue)
    /\ \E raises1, raises2 \in MayRaise :
          acc' = LoopBody(acc, i, j_future[i], HasCallback, raises1, raises2)
    /\ b_pc' = AfterBody(acc')
    /\ UNCHANGED <<singleVars, batchArgs, submitted, poolVars, b_err, summary>>

\* lines 123, 157-158: leaving the with block waits for every task; then the
\* exception that left the loop goes on, or the summary is built and returned
Shutdown ==
    /\ b_pc = "shutdown"
    /\ \A i \in JobIds : j_state[i] = "done"
    /\ IF acc.err # NoErr
         THEN /\ b_pc' = "raised"
              /\ b_err' = acc.err
              /\ UNCHANGED summary
       ELSE IF SummaryRaises(b_kind, acc.results)
         THEN /\ b_pc' = "raised"
              /\ b_err' = Err("TypeError", "int + NoneType", 0)
              /\ UNCHANGED summary
       ELSE /\ b_pc' = "returned"
            /\ summary' = _build_summary(b_kind, acc.results, acc.failures)
            /\ UNCHANGED b_err
    /\ UNCHANGED <<singleVars, batchArgs, submitted, poolVars, prefinished, fin_queue, acc>>

\* ---- the workers
Running == {i \in JobIds : j_state[i] = "running"}
Queued == {i \in JobIds : j_state[i] = "queued"}

\* a free worker thread takes the oldest task of the queue
WorkerStart(i) ==
    /\ i \in Queued
    /\ \A k \in Queued : i <= k
    /\ Cardinality(Running) < b_workers
    /\ j_state' = [j_state EXCEPT ![i] = "running"]
    /\ UNCHANGED <<singleVars, batchArgs, submitted, j_attempt, j_future, j_seen, out_fs,
                   finish_order, mainVars>>

\* a worker reading _cached_dict from a fresh load of the dictionary file
ReloadedDict == _load_dictionary(dict_file, NoDict)

\* packager.py lines 106, 177, unpacker.py line 108: a worker reads self._cached_dict
ReadCachedDict == p_dict

\* the task of job i is over: its future is set and as_completed, if it waits,
\* is told
Complete(i, fut) ==
    /\ j_state' = [j_state EXCEPT ![i] = "done"]
    /\ j_future' = [j_future EXCEPT ![i] = fut]
    /\ finish_order' = Append(finish_order, i)
    /\ fin_queue' = IF b_pc = "drain" THEN Append(fin_queue, i) ELSE fin_queue

\* compress_with_retry after a transient failure of attempt n (lines 213-225)
Retry(i, n, e) ==
    IF n < max_retries
      THEN UNCHANGED <<j_state, j_future, finish_order, fin_queue>>
      ELSE Complete(i, Exception(e))

\* batch_packager.py lines 160-170: one attempt of compress_with_retry for job i
_compress_one(i) ==
    /\ b_kind = "pack"
    /\ i \in Running
    /\ LET n == j_attempt[i] + 1
       IN  /\ j_attempt' = [j_attempt EXCEPT ![i] = n]
           /\ CASE jobs[i] = "empty" ->
                     /\ Complete(i, Exception(Err("ValueError", "empty", n)))
                     /\ UNCHANGED <<out_fs, j_seen>>
                [] jobs[i] = "missing" ->
                     /\ Retry(i, n, Err("FileNotFoundError", "not found", n))
                     /\ UNCHANGED <<out_fs, j_seen>>
                [] jobs[i] = "ok" ->
                     /\ j_seen' = [j_seen EXCEPT ![i] = @ \cup {ReadCachedDict}]
                     /\ \/ /\ out_fs' = [out_fs EXCEPT ![OutputPath("pack", i)] =
                                            [exists |-> TRUE, job |-> i]]
                           /\ Complete(i, Result(PackResult(i, ArchiveSize(i))))
                        \/ /\ Retry(i, n, Err("OSError", "io", n))
                           /\ UNCHANGED out_fs
    /\ UNCHANGED <<singleVars, batchArgs, submitted, b_pc, prefinished, acc, b_err, summary>>

\* batch_unpacker.py lines 145-152: the one call of unpack for job i
_decompress_one(i) ==
    /\ b_kind = "unpack"
    /\ i \in Running
    /\ j_attempt' = [j_attempt EXCEPT ![i] = @ + 1]
    /\ CASE jobs[i] = "junk" ->
              /\ Complete(i, Exception(Err("ValueError", "bad magic", 1)))
              /\ UNCHANGED <<out_fs, j_seen>>
         [] OTHER ->
              /\ j_seen' = [j_seen EXCEPT ![i] = @ \cup {ReadCachedDict}]
              /\ \/ /\ out_fs' = [out_fs EXCEPT ![OutputPath("unpack", i)] =
                                     [exists |-> TRUE, job |-> i]]
                    /\ Complete(i, Result(UnpackResult(i, jobs[i])))
                 \/ /\ Complete(i, Exception(Err("OSError", "io", 1)))
                    /\ UNCHANGED out_fs
    /\ UNCHANGED <<singleVars, batchArgs, submitted, b_pc, prefinished, acc, b_err, summary>>

\* somebody replaces the dictionary file while the batch runs: a trained
\* dictionary where there was none, or the file removed
DictFileChanges ==
    /\ b_pc \in {"submit", "drain"}
    /\ p_dict = _load_dictionary(dict_file, NoDict)
    /\ dict_file' = IF dict_file.exists THEN Absent ELSE File(<<1>>)
    /\ UNCHANGED <<packVars, unpackVars, history, batchVars>>

_run ==
    \/ Mkdirs
    \/ MkdirsFault
    \/ Submit
    \/ AsCompleted
    \/ \E i \in JobIds : Drain(i)
    \/ Shutdown

NextBatch ==
    \/ BatchCall
    \/ _run
    \/ \E i \in JobIds : WorkerStart(i)
    \/ \E i \in JobIds : _compress_one(i)
    \/ \E i \in JobIds : _decompress_one(i)
    \/ DictFileChanges

(***************************************************************************)
(* One Packager used for several packs, and train_dictionary called on it  *)
(* by another thread.                                                      *)
(***************************************************************************)
\* the entries of the history with the given op
Entries(op) == {k \in 1 .. Len(history) : history[k].op = op}

\* the call has returned and the caller packs the same file again
PackAgain ==
    /\ r_pc = "returned"
    /\ Cardinality(Entries("pack")) + 1 < MaxPacks
    /\ history' = Append(history, [op |-> "pack", manifest |-> loc.manifest])
    /\ r_pc' = "loop"
    /\ attempt' = 0
    /\ retry_delay' = base_delay
    /\ last_error' = NoErr
    /\ sleeps' = <<>>
    /\ r_err' = NoErr
    /\ r_result' = NoResult
    /\ UNCHANGED <<src, has_cb, p_dict, max_retries, base_delay, c_pc, callVars,
                   unpackVars, dict_file, batchVars>>

\* packager.py lines 277-290: a dictionary is trained, written to dict_path and
\* loaded into the cache, at any moment of a pack.  (The calls that raise before
\* line 282 change nothing.)
train_dictionary ==
    /\ Cardinality(Entries("train")) < MaxTrainings
    /\ dict_file' = File(<<1>>)
    /\ p_dict' = _load_dictionary(dict_file', p_dict)
    /\ history' = Append(history, [op |-> "train"])
    /\ UNCHANGED <<src, has_cb, max_retries, base_delay, callVars, c_pc, retryVars,
                   unpackVars, batchVars>>

(***************************************************************************)
(* Specifications.                                                         *)
(***************************************************************************)
\* the dictionary file the Packager was built on
DictInit ==
    /\ dict_file \in DictFiles
    /\ p_dict = _load_dictionary(dict_file, NoDict)
    /\ history = <<>>

Init == PackInit /\ UnpackInit /\ DictInit /\ BatchIdle

NextPack ==
    \/ compress_file
    \/ compress_with_retry

\* packing through the retry policy, with faults and kills
Spec == Init /\ [][NextPack]_vars

\* one packing attempt, then the archive altered or not, then unpacking
InitUnpack == Init /\ max_retries = 1 /\ base_delay = 1

Next ==
    \/ NextPack
    \/ Tamper
    \/ unpack

SpecUnpack == InitUnpack /\ [][Next]_vars

\* one batch call on a shared Packager or Unpacker
InitBatch ==
    /\ PackInit
    /\ src = MissingSource
    /\ ~has_cb
    /\ dest = Absent
    /\ base_delay = 1
    /\ max_retries \in 1 .. MaxBatchRetries
    /\ UnpackInit
    /\ DictInit
    /\ dict_file # File(<<>>)
    /\ BatchInit
    /\ b_kind = "unpack" => max_retries = 1

SpecBatch == InitBatch /\ [][NextBatch]_vars

\* several packs of one file on one Packager, each a single attempt, with a
\* dictionary trained meanwhile or not
NextDict ==
    \/ NextPack
    \/ PackAgain
    \/ train_dictionary

SpecDict == InitUnpack /\ [][NextDict]_vars
(***************************************************************************)
(* Properties.                                                             *)
(***************************************************************************)
RECURSIVE Pow2(_)
Pow2(n) == IF n = 0 THEN 1 ELSE 2 * Pow2(n - 1)

RECURSIVE BlocksIn(_, _)
\* the blocks held by the zblk sections of data[from ..]
BlocksIn(data, from) ==
    IF from > Len(data) THEN 0
    ELSE (IF data[from].t = "zblk" THEN Len(data[from].enc) ELSE 0) + BlocksIn(data, from + 1)

\* header, manifest and a closed compressed stream over the whole source
IsCompleteArchive(f, manifest) ==
    /\ f.exists
    /\ Len(f.data) >= 5
    /\ SubSeq(f.data, 1, 3) = HeaderSections(manifest)
    /\ f.data[4].t = "zhdr"
    /\ f.data[Len(f.data)].t = "zend"
    /\ \A i \in 5 .. Len(f.data) - 1 : f.data[i].t = "zblk"
    /\ BlocksIn(f.data, 5) = Len(src.data)

\* C1: in every state of a compress_file call, a kill at any step included, the
\* destination path holds what it held when the call began until shutil.move has
\* run, and from then on it holds the complete archive of this call.
C1_DestinationOnlyByRename ==
    /\ ~moved => dest = dest_start
    /\ moved => IsCompleteArchive(dest, loc.manifest)

\* the process was killed after blocks were written to the temp file
C1_Witness ==
    /\ c_pc = "crashed"
    /\ ~moved
    /\ tmp.exists
    /\ Len(tmp.data) >= 5
    /\ dest = dest_start

\* the steps of compress_file that follow the creation of the temp file
AfterTempCreated == {"header", "read", "compress", "callback", "close", "move"}

\* C2: when compress_file ends by raising after its temp file was created, the
\* temp file is gone and the exception raised is the one the failing step raised.
C2_FailureRemovesTemp ==
    (c_pc = "raised" /\ fault_at \in AfterTempCreated) =>
        /\ ~tmp.exists
        /\ c_err = fault
        /\ c_err # NoErr

\* the rename failed, with the whole archive already in the temp file
C2_Witness ==
    /\ c_pc = "raised"
    /\ fault_at = "move"
    /\ ~tmp.exists
    /\ c_err = fault

\* a source compress_file refuses for good
PermanentSource ==
    \/ src.ext \notin SUPPORTED_FORMATS
    \/ src.exists /\ (src.size = 0 \/ src.size > MAX_FILE_SIZE)

PermanentMessages == {"unsupported", "empty", "too_large"}

\* C8: with max_retries >= 1, a source that is unsupported, empty or over the
\* ceiling makes compress_with_retry raise that ValueError after one attempt, with
\* no sleep and no second attempt; and a permanent error is only ever raised so.
C8_PermanentNotRetried ==
    /\ (PermanentSource /\ max_retries >= 1) =>
          /\ attempt <= 1
          /\ sleeps = <<>>
          /\ r_pc # "returned"
          /\ r_pc = "raised" => r_err.kind = "ValueError" /\ r_err.msg \in PermanentMessages
    /\ (r_pc = "raised" /\ r_err.kind = "ValueError" /\ r_err.msg \in PermanentMessages) =>
          attempt = 1 /\ sleeps = <<>> /\ r_err.attempt = 1

\* an empty file under the largest max_retries
C8_Witness ==
    /\ r_pc = "raised"
    /\ src.exists /\ src.size = 0
    /\ max_retries = MaxRetries
    /\ r_err.msg = "empty"
    /\ attempt = 1
    /\ sleeps = <<>>

\* the exception classes compress_with_retry retries on
IsTransient(e) == e.kind \in {"OSError", "FileNotFoundError", "RuntimeError"}

\* C9: when compress_with_retry raises a transient error it has made max_retries
\* attempts, has slept once between consecutive attempts and not after the last,
\* and raises the error of the last attempt; when it returns, it returns the result
\* of the last attempt it made.
C9_RetriesUpToMaximum ==
    /\ (r_pc = "raised" /\ IsTransient(r_err)) =>
          /\ attempt = max_retries
          /\ Len(sleeps) = max_retries - 1
          /\ r_err.attempt = max_retries
    /\ r_pc = "returned" =>
          /\ attempt <= max_retries
          /\ Len(sleeps) = attempt - 1
          /\ r_result.success
          /\ r_result.attempt = attempt
    /\ r_pc = "call" => Len(sleeps) = attempt - 1

\* every attempt failed transiently under the largest max_retries
C9_Witness ==
    /\ r_pc = "raised"
    /\ IsTransient(r_err)
    /\ max_retries = MaxRetries
    /\ attempt = MaxRetries
    /\ Len(sleeps) = MaxRetries - 1
    /\ r_err.attempt = MaxRetries

\* C10: the k-th sleep of compress_with_retry lasts retry_delay * 2^(k-1).
C10_ExponentialBackoff ==
    \A k \in 1 .. Len(sleeps) : sleeps[k] = base_delay * Pow2(k - 1)

\* three sleeps from a base delay above 1
C10_Witness ==
    /\ Len(sleeps) >= 3
    /\ base_delay > 1
    /\ sleeps[3] = 4 * base_delay

\* the checksum field holds a value
RecordsChecksum(manifest) == "checksum" \in DOMAIN manifest /\ manifest.checksum # <<>>

HasRun(step) == \E i \in 1 .. Len(u_trace) : u_trace[i] = step

\* C3: when unpack has recomputed the SHA-256 of the restored bytes and it differs
\* from the checksum of the manifest, unpack raises the integrity error, its temp
\* file is gone when it ends, and the file at the final path is as it was.
C3_MismatchFailsClosed ==
    (u_loc.actual_checksum # <<>> /\ u_loc.actual_checksum # u_loc.manifest.checksum) =>
        /\ u_pc \in {"finally", "raised"}
        /\ u_err = Err("ValueError", "checksum mismatch", 0)
        /\ ~HasRun("moved")
        /\ u_final = u_final_start
        /\ u_pc = "raised" => ~u_tmp.exists

\* a mismatch with a file already at the final path
C3_Witness ==
    /\ u_pc = "raised"
    /\ u_err.msg = "checksum mismatch"
    /\ u_loc.actual_checksum # u_loc.manifest.checksum
    /\ u_final_start = OldOutput
    /\ u_final = OldOutput
    /\ ~u_tmp.exists

\* C4: for a manifest that records a checksum, the restored file is at the final
\* path only after the payload was decompressed to its end and the comparison of
\* the checksums succeeded, in that order.
C4_MoveAfterVerification ==
    (u_pc \notin {"idle", "magic", "header"} /\ RecordsChecksum(u_loc.manifest)) =>
        /\ HasRun("moved") =>
              /\ u_trace = <<"decompressed", "verified", "moved">>
              /\ u_loc.actual_checksum = u_loc.manifest.checksum
        /\ ~HasRun("moved") => u_final = u_final_start

\* a verified restore over a file already at the final path
C4_Witness ==
    /\ u_pc = "returned"
    /\ RecordsChecksum(u_loc.manifest)
    /\ u_trace = <<"decompressed", "verified", "moved">>
    /\ u_final_start = OldOutput
    /\ u_final # OldOutput

\* C5: verification is made exactly when the manifest has a checksum field: with
\* the field present, whatever its value, a restore succeeds only if the
\* recomputed SHA-256 equals it, and verification is skipped only without the
\* field.
C5_GatedByPresence ==
    /\ (u_pc = "returned" /\ "checksum" \in DOMAIN u_loc.manifest) =>
          u_loc.actual_checksum = u_loc.manifest.checksum
    /\ HasRun("skipped") => "checksum" \notin DOMAIN u_loc.manifest
    /\ HasRun("verified") => "checksum" \in DOMAIN u_loc.manifest

\* C6: with has_dict true in the manifest and no dictionary cached, unpack fails
\* with a missing-dictionary error and never goes on to the payload.
C6_MissingDictionaryFails ==
    (/\ u_pc \notin {"idle", "magic", "header"}
     /\ Get(u_loc.manifest, "has_dict", FALSE)
     /\ ~IsNotNone(u_dict)) =>
        /\ u_pc \in {"finally", "raised"}
        /\ u_err.kind = "MissingDictionaryError"
        /\ ~u_tmp.exists
        /\ ~HasRun("decompressed")

\* C7: an archive written by compress_file and not altered, unpacked with the
\* dictionary state it was packed with, restores the bytes of the source and the
\* checksum recomputed equals the one of the manifest; unpack raises only when a
\* write to its temp file fails.
C7_RoundTrip ==
    (r_pc = "returned" /\ ~tampered /\ u_dict = p_dict) =>
        /\ u_pc = "returned" =>
              /\ u_final = File(src.data)
              /\ u_loc.manifest.checksum = _checksum_file(src)
              /\ u_loc.actual_checksum = u_loc.manifest.checksum
              /\ u_loc.manifest.original_size = src.size
        /\ u_pc = "raised" => u_err.kind = "OSError"

\* a two-block file packed and restored with the trained dictionary
C7_Witness ==
    /\ r_pc = "returned"
    /\ ~tampered
    /\ u_dict = p_dict
    /\ p_dict = TrainedDict
    /\ u_pc = "returned"
    /\ Len(src.data) >= 2
    /\ u_final = File(src.data)

\* C11: a source path with a supported suffix and no file at it is refused for
\* good: compress_with_retry makes one attempt, never sleeps and never retries.
C11_MissingSourceNotRetried ==
    (~src.exists /\ src.ext \in SUPPORTED_FORMATS) =>
        /\ attempt <= 1
        /\ sleeps = <<>>

\* C12: unpacking is retried too: an unpack job of a batch that is reported failed
\* with a transient I/O error has made the configured number of attempts.
C12_UnpackRetried ==
    \A i \in JobIds :
        (/\ b_kind = "unpack"
         /\ j_future[i].state = "exception"
         /\ IsTransient(j_future[i].error)) =>
            j_attempt[i] = DEFAULT_MAX_RETRIES

\* what a batch call may raise: the input directory is missing, the output
\* directories cannot be made, or the caller's own progress callback raised
OrchestrationErrors ==
    {Err("ValueError", "Input directory not found", 0), Err("OSError", "mkdir", 0),
     CallbackError}

\* C13: no job makes a batch call raise: the call raises only for a problem of the
\* orchestration, and the summary it returns holds a failure entry, with the input
\* path and the error text, for every job that raised.
C13_JobExceptionsRecorded ==
    /\ b_pc = "raised" => b_err \in OrchestrationErrors
    /\ b_pc = "returned" =>
          \A i \in JobIds :
              j_future[i].state = "exception" =>
                  \E k \in 1 .. Len(summary.failures) :
                      summary.failures[k] = Failure(i, j_future[i].error)

\* a call of the progress callback has raised
CallbackRaised ==
    \/ acc.err = CallbackError
    \/ \E k \in 1 .. Len(acc.failures) : acc.failures[k].error = CallbackError.msg

Raised == {i \in JobIds : j_future[i].state = "exception"}
Succeeded == {i \in JobIds : j_future[i].state = "result"}

\* the files at the output paths are those of a batch of the jobs of S alone
OutputsAsOf(S) ==
    \A q \in DOMAIN out_fs :
        LET writers == {i \in S : OutputPath(b_kind, i) = q}
        IN  IF writers = {} THEN out_fs[q] = NoFile
            ELSE out_fs[q].exists /\ out_fs[q].job \in writers

\* C14: a batch compress call of N jobs of which exactly one raises (the progress
\* callback, if any, returning) returns, whatever the interleaving of the workers,
\* a summary with N-1 successes and one failure, the failure entry holding the
\* path and the error text of that job, success = false, and the output paths hold
\* what a batch of the other jobs alone leaves there.
C14_PartialFailure ==
    (/\ b_kind = "pack"
     /\ b_pc \in {"returned", "raised"}
     /\ Cardinality(Raised) = 1
     /\ ~CallbackRaised) =>
        /\ b_pc = "returned"
        /\ summary.succeeded = NumJobs - 1
        /\ summary.failed = 1
        /\ ~summary.success
        /\ \A i \in Raised :
              summary.failures = <<[file |-> InputPath(i), error |-> j_future[i].error.msg]>>
        /\ Len(summary.results) = NumJobs - 1
        /\ OutputsAsOf(Succeeded)

\* the first of a full batch failed for good, the others were packed
C14_Witness ==
    /\ b_kind = "pack"
    /\ b_pc = "returned"
    /\ NumJobs = MaxJobs
    /\ Raised = {1}
    /\ ~summary.success
    /\ summary.succeeded = MaxJobs - 1
    /\ \A i \in Succeeded : out_fs[OutputPath("pack", i)].exists

RECURSIVE SumOver(_, _)
\* the sum of f[i] over the jobs i of S
SumOver(S, f) ==
    IF S = {} THEN 0
    ELSE LET i == CHOOSE x \in S : TRUE
         IN  f[i] + SumOver(S \ {i}, f)

OriginalSizes == [i \in JobIds |-> OriginalSize(i)]
ArchiveSizes == [i \in JobIds |-> ArchiveSize(i)]

Orders ==
    {o \in [1 .. NumJobs -> JobIds] : \A x, y \in 1 .. NumJobs : x # y => o[x] # o[y]}

RECURSIVE RunLoop(_, _)
\* the loop of _run over the futures of this batch, yielded in the given order,
\* the progress callback returning
RunLoop(st, order) ==
    IF order = <<>> THEN st
    ELSE RunLoop(LoopBody(st, Head(order), j_future[Head(order)], HasCallback, FALSE, FALSE),
                 Tail(order))

\* the summary of this batch had its tasks completed in the given order
SummaryIn(order) ==
    LET st == RunLoop(NoAcc(NumJobs), order)
    IN  _build_summary(b_kind, st.results, st.failures)

\* C16: the summary does not depend on the order of completion: had the tasks of
\* the batch, with the outcomes they had, completed in any other order, the batch
\* call (its progress callback, if any, returning) would have returned the same
\* summary.
C16_SummaryDeterministic ==
    (b_pc = "returned" /\ ~CallbackRaised) =>
        \A order \in Orders : SummaryIn(order) = summary

\* the entry of job i: its success record or its (path, error) failure record
EntryOf(i) ==
    IF j_future[i].state = "result" THEN j_future[i].result
    ELSE [file |-> InputPath(i), error |-> j_future[i].error.msg]

\* C17: when a batch call with a progress callback is over, the callback has been
\* called exactly once per submitted job, the k-th call with completed = k, total =
\* the number of jobs and the entry of the job that was the k-th to complete.
C17_CallbackPerJobInCompletionOrder ==
    (HasCallback /\ b_pc \in {"returned", "raised"} /\ submitted = NumJobs) =>
        /\ Len(acc.calls) = NumJobs
        /\ \A k \in 1 .. Len(acc.calls) :
              /\ acc.calls[k].completed = k
              /\ acc.calls[k].total = NumJobs
              /\ k <= Len(finish_order) => acc.calls[k].entry = EntryOf(finish_order[k])

\* C18: during a batch the cached dictionary is only read: no step of the batch
\* call or of a worker changes it, and whatever a job reads as the cached
\* dictionary, at any attempt, is the value loaded at construction, also when the
\* dictionary file is replaced meanwhile.
C18_CachedDictReadOnly ==
    [][/\ p_dict' = p_dict
       /\ \A i \in JobIds : j_seen'[i] \subseteq {p_dict}]_vars

\* a full batch is over, every job has read the cached dictionary, and the
\* dictionary file no longer is the one that was loaded
C18_Witness ==
    /\ b_pc = "returned"
    /\ NumJobs = MaxJobs
    /\ \A i \in JobIds : j_seen[i] = {p_dict}
    /\ \E i \in JobIds : j_attempt[i] >= 2
    /\ p_dict # _load_dictionary(dict_file, NoDict)

\* C19: the has_dict flag of the manifest of an archive at the output path is true
\* exactly when the compressed stream of that archive was made with a dictionary,
\* whatever dictionary the Packager holds and also when train_dictionary reloads
\* the cache during the pack.
C19_HasDictIffDictionaryUsed ==
    moved => (loc.manifest.has_dict <=> dest.data[4].dict_id # 0)

\* C20: when a file was packed before on this Packager, no dictionary was trained
\* since the first of these packs began, and the Packager holds a dictionary, the
\* manifests of the earlier packs and of the pack that has just returned all
\* report has_dict = true and carry the same checksum.
C20_DictionaryDeterminism ==
    (/\ r_pc = "returned"
     /\ history # <<>>
     /\ Entries("train") = {}
     /\ p_dict # NoDict) =>
        /\ loc.manifest.has_dict
        /\ \A k \in Entries("pack") :
              /\ history[k].manifest.has_dict
              /\ history[k].manifest.checksum = loc.manifest.checksum

\* a file of two blocks packed twice with the trained dictionary
C20_Witness ==
    /\ r_pc = "returned"
    /\ Len(history) = MaxPacks - 1
    /\ Entries("train") = {}
    /\ p_dict = TrainedDict
    /\ Len(src.data) = 2
    /\ loc.manifest.has_dict
    /\ history[1].manifest = loc.manifest
(***************************************************************************)
(* Files of a given size in bytes, their content left out: compress_file   *)
(* byte by byte at the sizes where its size checks and chunk sizes change. *)
(***************************************************************************)
ByteSizes ==
    {0, 1, CHUNK_SIZE - 1, CHUNK_SIZE, CHUNK_SIZE + 1,
     10000000 - 1, 10000000, 10 * 1024 * 1024 - 1, 10 * 1024 * 1024,
     100000000 - 1, 100000000, 100 * 1024 * 1024, 100 * 1024 * 1024 + 1,
     MAX_FILE_SIZE, MAX_FILE_SIZE + 1}

ByteSources ==
    {[ext |-> ".txt", exists |-> TRUE, size |-> n, data |-> <<>>] : n \in ByteSizes}

\* in_f.read(n) with bytes_read bytes of the file consumed: how many bytes come
ReadLen(size, bytes_read, n) ==
    IF size - bytes_read < n THEN size - bytes_read ELSE n

\* lines 130-134: one turn of the loop on a file of src.size bytes
StreamBytes ==
    /\ c_pc = "stream"
    /\ LET n == ReadLen(src.size, loc.bytes_read, loc.chunk_size)
       IN  IF n = 0
             THEN /\ c_pc' = "close"
                  /\ UNCHANGED <<tmp, loc>>
             ELSE /\ c_pc' = "stream"
                  /\ tmp' = IF loc.started THEN tmp
                            ELSE File(tmp.data \o <<FrameHeader(loc.cctx)>>)
                  /\ loc' = [loc EXCEPT
                               !.bytes_read = @ + n,
                               !.started = TRUE,
                               !.calls = OnProgress(@, has_cb, loc.bytes_read + n,
                                                    loc.original_size)]
    /\ UNCHANGED <<argVars, retryVars, dest, tmp_path, c_err, dest_start, moved, fault, fault_at>>

InitStream ==
    /\ src \in ByteSources
    /\ max_retries = 1
    /\ base_delay = 1
    /\ PackStart
    /\ UnpackInit
    /\ dict_file = Absent
    /\ DictInit
    /\ BatchIdle

NextStream ==
    \/ RetryAttempt
    \/ Validate
    \/ BuildCompressor
    \/ BuildManifest
    \/ Mkstemp
    \/ WriteHeader
    \/ StreamBytes
    \/ CloseStreams
    \/ MoveToOutput
    \/ Return
    \/ Finally
    \/ RetryReturn
    \/ RetryPermanent

\* one call of compress_file on a file of a given size, no fault
SpecStream == InitStream /\ [][NextStream]_vars

\* C21: compress_file refuses a source that is empty or strictly larger than
\* the size ceiling, and accepts one of exactly the ceiling; when it refuses,
\* no temp file was created and the destination is what it was before the call.
Refused == c_err.kind = "ValueError" /\ c_err.msg \in {"empty", "too_large"}

C21_RejectsBeforeSideEffects ==
    /\ Refused => ~tmp.exists /\ ~tmp_path /\ dest = dest_start /\ ~moved
    /\ c_pc \in {"raised", "returned"} /\ src.exists /\ src.ext \in SUPPORTED_FORMATS
         => (Refused <=> (src.size = 0 \/ src.size > MAX_FILE_SIZE))
    /\ c_pc = "returned" /\ src.size = MAX_FILE_SIZE => moved /\ dest # dest_start

C21_Witness ==
    /\ c_pc = "raised"
    /\ c_err.msg = "too_large"
    /\ src.size = MAX_FILE_SIZE + 1
    /\ dest_start = OldFile

\* C22: with a callback given, a compress_file that returns has called it once
\* per chunk read, with (bytes consumed so far, size of the source): the
\* number of calls is the size divided by the chunk size, rounded up, the
\* chunk being 65536 bytes for a source under 10,000,000 bytes, 524288 bytes
\* from 10,000,000 up to but not including 100,000,000 bytes, and 1048576
\* bytes from 100,000,000 bytes on; the first components strictly increase and
\* the last one is the size.  Without a callback nothing is called.
CeilDiv(a, b) == (a + b - 1) \div b

CallsPerChunk(calls, size, chunk) ==
    /\ Len(calls) = CeilDiv(size, chunk)
    /\ \A i \in 1 .. Len(calls) : calls[i][2] = size
    /\ \A i \in 1 .. Len(calls) - 1 : calls[i][1] < calls[i + 1][1]
    /\ calls # <<>> => calls[Len(calls)][1] = size

C29_AtLeastOneAttempt ==
    /\ r_pc \in {"returned", "raised"} => attempt >= 1
    /\ r_pc = "returned" => r_result.success /\ r_result.attempt = attempt
    /\ r_pc = "raised" => r_err # NoErr /\ r_err.attempt = attempt /\ r_err = c_err

\* C24: an archive whose first four bytes are the tag of no packager, or whose
\* manifest is not valid JSON text, makes unpack raise the format error
\* (ValueError) with no manifest field read, and with no output directory, no
\* temp file and no output file created.
BadTag == ~IsSection(dest.data, 1, "magic") \/ dest.data[1].v \notin PACKAGER_MAGICS

BadManifest ==
    /\ IsSection(dest.data, 1, "magic")
    /\ dest.data[1].v \in UNPACK_MAGICS
    /\ IsSection(dest.data, 2, "verlen")
    /\ ~IsSection(dest.data, 3, "manifest")

C24_FormatErrorBeforeSideEffects ==
    (u_pc # "idle" /\ (BadTag \/ BadManifest)) =>
        /\ u_pc # "returned"
        /\ u_pc = "raised" =>
              /\ u_err.kind = "ValueError"
              /\ u_err.msg = (IF BadTag THEN "bad magic" ELSE "json")
        /\ u_loc.manifest = NoULocals.manifest
        /\ ~u_out_dir
        /\ ~u_tmp.exists /\ ~u_tmp_path /\ ~u_tmp_recomp.exists
        /\ u_final = u_final_start
        /\ u_trace = <<>>

\* a manifest cut short, with a file already at the final path
C24_Witness ==
    /\ u_pc = "raised"
    /\ BadManifest
    /\ u_err.msg = "json"
    /\ u_final_start = OldOutput
    /\ u_final = OldOutput

\* C25: the version byte has no part in the outcome of unpack: an archive that
\* differs from a written one in its version byte alone is restored like the
\* written one.  unpack fails on a missing field (KeyError) only when the
\* manifest lacks original_filename, the one field it requires, and then the
\* final path is left as it was and the temp file is removed.
OtherVersion ==
    /\ r_pc = "returned"
    /\ tampered
    /\ IsSection(dest.data, 2, "verlen")
    /\ dest.data[2].version # VERSION

C25_VersionByteIgnored ==
    /\ (OtherVersion /\ u_dict = p_dict) =>
          /\ u_pc = "returned" =>
                /\ u_final = File(src.data)
                /\ u_loc.version = dest.data[2].version
                /\ u_loc.actual_checksum = _checksum_file(src)
          /\ u_pc = "raised" => u_err.kind = "OSError"
    /\ OtherVersion => u_err.kind \in {"none", "OSError", "ZstdError"}
    /\ u_err.kind = "KeyError" =>
          /\ "original_filename" \notin DOMAIN u_loc.manifest
          /\ u_final = u_final_start
          /\ u_pc = "raised" => ~u_tmp.exists
    /\ u_pc = "returned" => "original_filename" \in DOMAIN u_loc.manifest

\* an archive with version byte 255 restored over a file at the final path
C25_Witness ==
    /\ OtherVersion
    /\ u_loc.version = 255
    /\ u_pc = "returned"
    /\ u_final_start = OldOutput
    /\ u_final = File(src.data)
    /\ Len(src.data) >= 1

\* C28: an archive that carries the tag of one of the three packagers is never
\* refused by unpack for its tag.
C28_PackagerTagsAccepted ==
    (IsSection(dest.data, 1, "magic") /\ dest.data[1].v \in PACKAGER_MAGICS) =>
        ~(u_err.kind = "ValueError" /\ u_err.msg = "bad magic")

\* C30: when unpack has returned or raised, no temp file of the call is left:
\* neither the one the payload was decompressed to nor the one
\* _recompress_pdf_streams writes for a visual archive.
C30_NoTempFileRemains ==
    u_pc \in {"returned", "raised"} => ~u_tmp.exists /\ ~u_tmp_recomp.exists

\* the entries of a list of result or failure records that name input path p
Named(entries, field, p) == {k \in 1 .. Len(entries) : entries[k][field] = p}

\* C26: when a batch call that has submitted its N jobs has ended, every job is
\* recorded exactly once, in the results or in the failures and never in both
\* or in neither, and succeeded + failed = N, also when the progress callback
\* raises.
C26_EveryJobRecordedOnce ==
    (b_entry = "files" /\ submitted = NumJobs /\ b_pc \in {"returned", "raised"}) =>
        /\ \A i \in JobIds :
              Cardinality(Named(acc.results, "input_file", InputPath(i)))
                + Cardinality(Named(acc.failures, "file", InputPath(i))) = 1
        /\ Len(acc.results) + Len(acc.failures) = NumJobs
        /\ b_pc = "returned" => summary.succeeded + summary.failed = NumJobs

\* C27: the jobs of a batch compress call, whose input files are all different,
\* have output archive paths that are all different, so that every job that
\* succeeded has its own archive at its output path when the call returns.
C27_DistinctOutputPaths ==
    b_kind = "pack" =>
        /\ \A i, j \in JobIds :
              i # j => /\ InputPath(i) # InputPath(j)
                       /\ OutputPath("pack", i) # OutputPath("pack", j)
        /\ b_pc = "returned" =>
              \A i \in Succeeded :
                  /\ out_fs[OutputPath("pack", i)].exists
                  /\ out_fs[OutputPath("pack", i)].job = i

(***************************************************************************)
(* The header byte by byte, as compress_file writes it and unpack reads    *)
(* it.  A byte is [b |-> 0..255]; the JSON text of the manifest is one     *)
(* element per field, in the order of the dict; the payload is one element *)
(* per section of the stream.                                              *)
(***************************************************************************)
Byte(n) == [b |-> n]

\* the four ASCII bytes of a MAGIC
MagicBytes(g) ==
    CASE g = "ZPKG" -> <<Byte(90), Byte(80), Byte(75), Byte(71)>>
      [] g = "ZPKV" -> <<Byte(90), Byte(80), Byte(75), Byte(86)>>
      [] g = "ZPKL" -> <<Byte(90), Byte(80), Byte(75), Byte(76)>>

\* struct_pack with the length in little-endian order
struct_pack_little(version, n) ==
    <<Byte(version), Byte(n % 256), Byte((n \div 256) % 256),
      Byte((n \div 65536) % 256), Byte((n \div 16777216) % 256)>>

\* struct.pack('>BL', version, n): one byte, then four bytes, high byte first
struct_pack(version, n) ==
    <<Byte(version), Byte((n \div 16777216) % 256), Byte((n \div 65536) % 256),
      Byte((n \div 256) % 256), Byte(n % 256)>>

\* struct.unpack('>BL', five bytes)
struct_unpack(bytes) ==
    [version |-> bytes[1].b,
     manifest_len |-> ((bytes[2].b * 256 + bytes[3].b) * 256 + bytes[4].b) * 256
                         + bytes[5].b]

\* the keys of the manifest in the order compress_file puts them
ManifestKeys ==
    <<"original_filename", "original_size", "compression_level", "format", "checksum",
      "has_dict">>

\* json.dumps(manifest).encode('utf-8'): a boolean becomes the word true or
\* false, every other value its literal
json_dumps(m) ==
    LET keys == SelectSeq(ManifestKeys, LAMBDA k : k \in DOMAIN m)
    IN  [i \in 1 .. Len(keys) |->
            [k |-> keys[i],
             text |-> IF keys[i] = "has_dict"
                        THEN [word |-> IF m[keys[i]] THEN "true" ELSE "false"]
                        ELSE [literal |-> m[keys[i]]]]]

\* json.loads(text.decode('utf-8')); text that is not JSON raises
json_loads(text) ==
    IF \A i \in 1 .. Len(text) : "k" \in DOMAIN text[i]
      THEN [key \in {text[i].k : i \in 1 .. Len(text)} |->
              LET t == (CHOOSE i \in 1 .. Len(text) : text[i].k = key)
              IN  IF "word" \in DOMAIN text[t].text
                    THEN text[t].text.word = "true"
                    ELSE text[t].text.literal]
      ELSE [raises |-> "JSONDecodeError"]

\* packager.py lines 108, 116-118: the bytes of the header
HeaderBytes(magic, version, m) ==
    MagicBytes(magic) \o struct_pack(version, Len(json_dumps(m))) \o json_dumps(m)

\* f.read(n) at offset pos: up to n bytes, fewer at the end of the file
Read(bytes, pos, n) ==
    SubSeq(bytes, pos + 1, IF pos + n > Len(bytes) THEN Len(bytes) ELSE pos + n)

\* unpacker.py lines 49-54: the three reads of the header, and f.tell() after
ParseHeader(bytes) ==
    LET magic == Read(bytes, 0, 4)
        verlen == struct_unpack(Read(bytes, 4, 5))
        text == Read(bytes, 9, verlen.manifest_len)
    IN  [magic |-> magic, version |-> verlen.version, manifest |-> json_loads(text),
         pos |-> 9 + Len(text)]

\* manifest lengths of one to four significant bytes
LengthSamples == {0, 1, 127, 256, 258, 65280, 65536, 16777216, 16909060}

\* C23: the header written for a manifest of L bytes is the 4 bytes of the tag,
\* 1 byte of version, 4 bytes of L with the high byte first and the L bytes of
\* the manifest; unpack's reads of an archive that compress_file wrote give
\* back the tag, the version and the manifest, and leave the file at offset
\* 9 + L, where the payload begins.
C23_HeaderRoundTrip ==
    /\ \A n \in LengthSamples :
          /\ Len(struct_pack(VERSION, n)) = 5
          /\ struct_unpack(struct_pack(VERSION, n)) = [version |-> VERSION, manifest_len |-> n]
    /\ (moved /\ ~tampered) =>
          LET m == loc.manifest
              L == Len(json_dumps(m))
              payload == [i \in 1 .. Len(dest.data) - 3 |-> [sec |-> dest.data[i + 3]]]
              bytes == HeaderBytes(MAGIC, VERSION, m) \o payload
              h == ParseHeader(bytes)
          IN  /\ SubSeq(dest.data, 1, 3) = HeaderSections(m)
              /\ Len(HeaderBytes(MAGIC, VERSION, m)) = 9 + L
              /\ SubSeq(bytes, 1, 4) = MagicBytes(MAGIC)
              /\ bytes[5] = Byte(VERSION)
              /\ SubSeq(bytes, 6, 9) = <<Byte(0), Byte(0), Byte(0), Byte(L)>>
              /\ h = [magic |-> MagicBytes(MAGIC), version |-> VERSION, manifest |-> m,
                      pos |-> 9 + L]
              /\ SubSeq(bytes, h.pos + 1, Len(bytes)) = payload
              /\ u_pc \notin {"idle", "magic", "header"} =>
                    /\ MagicBytes(u_loc.magic) = h.magic
                    /\ u_loc.version = h.version
                    /\ u_loc.manifest = h.manifest

\* an archive with a payload, its header read by unpack
C23_Witness ==
    /\ moved
    /\ ~tampered
    /\ Len(dest.data) > 4
    /\ u_pc = "returned"
    /\ u_loc.manifest = loc.manifest
    /\ ParseHeader(HeaderBytes(MAGIC, VERSION, loc.manifest)).pos = 9 + 6
=============================================================================
